---- MODULE Spec2Model ----
(***************************************************************************)
(* Model of pytrace_native (src/lib.rs): the frame evaluation hook         *)
(* frame_printer, the argument classifier locals_to_args, the global store *)
(* FRAMES and the atexit callback DummyCallback.__call__.                  *)
(*                                                                         *)
(* Strings the code slices or compares by prefix (frame name, file name,   *)
(* working directory) are sequences of characters; a character is a        *)
(* one-element token and Utf8Len gives its width in bytes.                 *)
(*                                                                         *)
(* The process is modelled from the moment pytrace_native.hook() has       *)
(* installed frame_printer as the interpreter's frame evaluator.           *)
(***************************************************************************)
EXTENDS Integers, Sequences, FiniteSets, TLC

VARIABLES
    \* ---- classifier harness (SpecArgs) ----
    in_locals,      \* the items of the locals dict handed to locals_to_args
    in_argc,        \* argc
    in_kwargc,      \* kwargc
    in_coflags,     \* coflags
    out_args,       \* [done, panicked, args]: outcome of the call
    \* ---- the traced process (Spec) ----
    proc,           \* "running" | "aborted"
    panicked,       \* "none" or the site of the panic that aborted the host
    cwd,            \* the working directory of the process (env::current_dir)
    CURRENT_DIR,    \* lazy_static: <<>> until first use, then <<dir>>
    FRAMES,         \* the Vec<FrameInfo> inside the global Mutex
    sink,           \* lines written to test.log
    stack,          \* frame_printer activations in progress, innermost last
    ncalls,         \* hooked calls made so far (bounded)
    nflush,         \* runs of DummyCallback.__call__ so far (bounded)
    evalRet,        \* value the default evaluator produced for the call that last ended, "none" once a new call enters
    hostRet,        \* last value frame_printer handed back to the host
    appended,       \* history: records in the order hooks completed them
    nTraced,        \* history: returned hooks of calls with exc = 0 passing the coded filter
    \* ---- threads under the GIL (SpecConc) ----
    gil,            \* thread holding the GIL, 0 if none
    mutexOwner,     \* thread holding the Mutex around the Vec, 0 if none
    tpc             \* thread -> position

argsVars == <<in_locals, in_argc, in_kwargc, in_coflags, out_args>>
procVars == <<proc, panicked, cwd, CURRENT_DIR, stack, ncalls, nflush,
              evalRet, hostRet, appended, nTraced>>
storeVars == <<FRAMES, sink>>
concVars == <<gil, mutexOwner, tpc>>
vars == <<argsVars, procVars, storeVars, concVars>>

(***************************************************************************)
(* Bounds                                                                  *)
(***************************************************************************)
MaxLocals == 4      \* entries in a locals dict given to the classifier harness
MaxArgc == 2        \* co_argcount in the classifier harness
MaxKwargc == 2      \* co_kwonlyargcount in the classifier harness
MaxCalls == 2       \* hooked calls per behaviour
MaxDepth == 2       \* nested frame_printer activations
MaxFlush == 2       \* runs of the atexit callback
NThreads == 2       \* host threads in SpecConc

(***************************************************************************)
(* Program constants                                                       *)
(***************************************************************************)
CO_VARARGS == 4
CO_VARKEYWORDS == 8

\* (x & bit) != 0 for a single-bit mask
HasFlag(x, bit) == (x \div bit) % 2 = 1

ArgTypes == {"int", "str"}
Last(s) == s[Len(s)]

(***************************************************************************)
(* locals_to_args                                                          *)
(***************************************************************************)
Arg(item, kind) == [name |-> item.name, typ |-> item.typ, kind |-> kind]

ArgsOf(items, kind) == [i \in 1..Len(items) |-> Arg(items[i], kind)]

\* index of the **kwargs item (0-based, as in the code)
StarKwargsIndex(argc, kwargc, varargs) ==
    IF varargs THEN argc + kwargc + 1 ELSE argc + kwargc

\* the slices and the indexings are bounds-checked: a short dict panics
locals_to_args_panics(items, argc, kwargc, coflags) ==
    LET varargs == HasFlag(coflags, CO_VARARGS)
        varkwargs == HasFlag(coflags, CO_VARKEYWORDS)
    IN  \/ argc > Len(items)
        \/ argc + kwargc > Len(items)
        \/ varargs /\ argc + kwargc >= Len(items)
        \/ varkwargs /\ StarKwargsIndex(argc, kwargc, varargs) >= Len(items)

\* mutant: keyword-only arguments pushed before *args
locals_to_args_kwfirst(items, argc, kwargc, coflags) ==
    LET positional == SubSeq(items, 1, argc)
        keywordonly == SubSeq(items, argc + 1, argc + kwargc)
        varargs == HasFlag(coflags, CO_VARARGS)
        varkwargs == HasFlag(coflags, CO_VARKEYWORDS)
    IN  ArgsOf(positional, "Positional")
        \o ArgsOf(keywordonly, "KeywordOnly")
        \o (IF varargs THEN <<Arg(items[argc + kwargc + 1], "StarArgs")>> ELSE <<>>)
        \o (IF varkwargs
            THEN <<Arg(items[StarKwargsIndex(argc, kwargc, varargs) + 1], "StarKwargs")>>
            ELSE <<>>)

\* mutant: **kwargs pushed before the keyword-only arguments
locals_to_args_kwargsearly(items, argc, kwargc, coflags) ==
    LET positional == SubSeq(items, 1, argc)
        keywordonly == SubSeq(items, argc + 1, argc + kwargc)
        varargs == HasFlag(coflags, CO_VARARGS)
        varkwargs == HasFlag(coflags, CO_VARKEYWORDS)
    IN  ArgsOf(positional, "Positional")
        \o (IF varargs THEN <<Arg(items[argc + kwargc + 1], "StarArgs")>> ELSE <<>>)
        \o (IF varkwargs
            THEN <<Arg(items[StarKwargsIndex(argc, kwargc, varargs) + 1], "StarKwargs")>>
            ELSE <<>>)
        \o ArgsOf(keywordonly, "KeywordOnly")

\* the value returned when no slice or index panics
locals_to_args(items, argc, kwargc, coflags) ==
    LET positional == SubSeq(items, 1, argc)
        keywordonly == SubSeq(items, argc + 1, argc + kwargc)
        varargs == HasFlag(coflags, CO_VARARGS)
        varkwargs == HasFlag(coflags, CO_VARKEYWORDS)
    IN  ArgsOf(positional, "Positional")
        \o (IF varargs THEN <<Arg(items[argc + kwargc + 1], "StarArgs")>> ELSE <<>>)
        \o ArgsOf(keywordonly, "KeywordOnly")
        \o (IF varkwargs
            THEN <<Arg(items[StarKwargsIndex(argc, kwargc, varargs) + 1], "StarKwargs")>>
            ELSE <<>>)

(***************************************************************************)
(* Classifier harness: Init draws the inputs, the actions apply the        *)
(* function.                                                               *)
(***************************************************************************)
LocalName(i) == <<"v", i>>

Snapshots ==
    UNION { [1..n -> ArgTypes] : n \in 0..MaxLocals }

SnapshotItems(tys) == [i \in 1..Len(tys) |-> [name |-> LocalName(i), typ |-> tys[i]]]

CoFlagValues == {3, 3 + CO_VARARGS, 3 + CO_VARKEYWORDS, 3 + CO_VARARGS + CO_VARKEYWORDS}

NoOutcome == [done |-> FALSE, panicked |-> FALSE, args |-> <<>>]

ProcIdle ==
    /\ proc = "running"
    /\ panicked = "none"
    /\ cwd = <<>>
    /\ CURRENT_DIR = <<>>
    /\ stack = <<>>
    /\ ncalls = 0
    /\ nflush = 0
    /\ evalRet = "none"
    /\ hostRet = "none"
    /\ appended = <<>>
    /\ nTraced = 0

StoreEmpty == FRAMES = <<>> /\ sink = <<>>

ConcIdle ==
    /\ gil = 0
    /\ mutexOwner = 0
    /\ tpc = [t \in 1..NThreads |-> "idle"]

ArgsIdle ==
    /\ in_locals = <<>>
    /\ in_argc = 0
    /\ in_kwargc = 0
    /\ in_coflags = 3
    /\ out_args = NoOutcome

InitArgs ==
    /\ in_locals \in {SnapshotItems(tys) : tys \in Snapshots}
    /\ in_argc \in 0..MaxArgc
    /\ in_kwargc \in 0..MaxKwargc
    /\ in_coflags \in CoFlagValues
    /\ out_args = NoOutcome
    /\ ProcIdle /\ StoreEmpty /\ ConcIdle

ClassifyOk ==
    /\ ~out_args.done
    /\ ~locals_to_args_panics(in_locals, in_argc, in_kwargc, in_coflags)
    /\ out_args' = [done |-> TRUE, panicked |-> FALSE,
                    args |-> locals_to_args(in_locals, in_argc, in_kwargc, in_coflags)]
    /\ UNCHANGED <<in_locals, in_argc, in_kwargc, in_coflags, procVars, storeVars, concVars>>

ClassifyPanic ==
    /\ ~out_args.done
    /\ locals_to_args_panics(in_locals, in_argc, in_kwargc, in_coflags)
    /\ out_args' = [done |-> TRUE, panicked |-> TRUE, args |-> <<>>]
    /\ UNCHANGED <<in_locals, in_argc, in_kwargc, in_coflags, procVars, storeVars, concVars>>

NextArgs == ClassifyOk \/ ClassifyPanic

SpecArgs == InitArgs /\ [][NextArgs]_vars

\* number of variadic flags set in coflags
NumVariadic(coflags) ==
    (IF HasFlag(coflags, CO_VARARGS) THEN 1 ELSE 0)
    + (IF HasFlag(coflags, CO_VARKEYWORDS) THEN 1 ELSE 0)

\* C1: when the snapshot has at least p + k + (variadic flags) entries,
\* locals_to_args returns entries 0..p-1 as Positional, then (if *args) the
\* entry at p+k as StarArgs, then entries p..p+k-1 as KeywordOnly, then (if
\* **kwargs) the entry at p+k+(1 if *args) as StarKwargs; names and types
\* are kept and the length is p + k + (variadic flags).
C1_ClassifyLayout ==
    LET p == in_argc
        k == in_kwargc
        va == HasFlag(in_coflags, CO_VARARGS)
        vk == HasFlag(in_coflags, CO_VARKEYWORDS)
        s == IF va THEN 1 ELSE 0
        out == out_args.args
        Is(o, e, kind) == o.name = e.name /\ o.typ = e.typ /\ o.kind = kind
    IN  (out_args.done /\ Len(in_locals) >= p + k + NumVariadic(in_coflags)) =>
            /\ ~out_args.panicked
            /\ Len(out) = p + k + NumVariadic(in_coflags)
            /\ \A i \in 1..p : Is(out[i], in_locals[i], "Positional")
            /\ va => Is(out[p + 1], in_locals[p + k + 1], "StarArgs")
            /\ \A j \in 1..k : Is(out[p + s + j], in_locals[p + j], "KeywordOnly")
            /\ vk => Is(out[p + s + k + 1], in_locals[p + k + s + 1], "StarKwargs")

\* all four kinds present, classified
C1_Witness ==
    /\ out_args.done /\ ~out_args.panicked
    /\ in_argc >= 1 /\ in_kwargc >= 1
    /\ HasFlag(in_coflags, CO_VARARGS) /\ HasFlag(in_coflags, CO_VARKEYWORDS)
    /\ Len(out_args.args) = in_argc + in_kwargc + 2


(***************************************************************************)
(* Strings                                                                 *)
(***************************************************************************)
\* width in bytes of a character in UTF-8
Utf8Len(c) == IF c = "e_acute" THEN 2 ELSE 1

RECURSIVE ByteLen(_)
ByteLen(s) == IF s = <<>> THEN 0 ELSE Utf8Len(s[1]) + ByteLen(SubSeq(s, 2, Len(s)))

\* str::is_char_boundary
IsCharBoundary(s, n) ==
    n = 0 \/ \E i \in 1..Len(s) : ByteLen(SubSeq(s, 1, i)) = n

\* &s[..n] panics unless n is a char boundary of s (n <= len included)
SliceToPanics(s, n) == ~IsCharBoundary(s, n)

\* &s[..n] when it does not panic
SliceTo(s, n) ==
    IF n = 0 THEN <<>>
    ELSE SubSeq(s, 1, CHOOSE i \in 1..Len(s) : ByteLen(SubSeq(s, 1, i)) = n)

\* str::starts_with: a prefix test on the characters
starts_with(s, p) == Len(p) <= Len(s) /\ SubSeq(s, 1, Len(p)) = p

StartupDir == <<"/", "w">>
OtherDir == <<"/", "l">>
InFile == <<"/", "w", "/", "a">>
SiblingFile == <<"/", "w", "x", "/", "a">>
LibFile == <<"/", "l", "/", "a">>
RelFile == <<"a">>
StdinFile == <<"<", "s", "t", "d", "i", "n", ">">>

(***************************************************************************)
(* The traced program: its code objects                                    *)
(***************************************************************************)
PyStr(chars) == [decodes |-> TRUE, chars |-> chars]
\* a str that PyString::to_string cannot decode as UTF-8 (lone surrogate)
BadStr == [decodes |-> FALSE, chars |-> <<>>]

Code(name, file, argc, kwargc, flags) ==
    [co_name |-> name, co_filename |-> file, co_argcount |-> argc,
     co_kwonlyargcount |-> kwargc, co_flags |-> flags]

CodeObjects ==
    { Code(PyStr(<<"f">>), PyStr(InFile), 1, 0, 3),
      Code(PyStr(<<"g">>), PyStr(StdinFile), 1, 1, 3 + CO_VARARGS + CO_VARKEYWORDS),
      Code(PyStr(<<"h">>), PyStr(SiblingFile), 0, 0, 3),
      Code(PyStr(<<"f">>), PyStr(LibFile), 1, 0, 3),
      Code(PyStr(<<"f">>), PyStr(RelFile), 0, 0, 3),
      Code(PyStr(<<"<", "m">>), PyStr(InFile), 0, 0, 3),
      Code(PyStr(<<"e_acute">>), PyStr(InFile), 0, 0, 3),
      Code(PyStr(<<>>), PyStr(InFile), 0, 0, 3),
      Code(BadStr, PyStr(InFile), 0, 0, 3),
      Code(PyStr(<<"f">>), BadStr, 0, 0, 3) }

\* the frame's locals at call entry, in co_varnames order: positional,
\* keyword-only, *args, **kwargs
EntryLocals(co) ==
    [i \in 1..co.co_argcount |-> [name |-> <<"p", i>>, typ |-> "int"]]
    \o [i \in 1..co.co_kwonlyargcount |-> [name |-> <<"k", i>>, typ |-> "str"]]
    \o (IF HasFlag(co.co_flags, CO_VARARGS)
        THEN <<[name |-> <<"args", 0>>, typ |-> "tuple"]>> ELSE <<>>)
    \o (IF HasFlag(co.co_flags, CO_VARKEYWORDS)
        THEN <<[name |-> <<"kwargs", 0>>, typ |-> "dict"]>> ELSE <<>>)

RetValues == {"NULL", "obj_int"}
TypeName(obj) == "int"

(***************************************************************************)
(* get_type, FrameInfo::new, the filter                                    *)
(***************************************************************************)
get_type(obj) == IF obj = "NULL" THEN "<unknown>" ELSE TypeName(obj)

FrameInfo(name, filename, returns, locals, argc, kwargc, coflags) ==
    [name |-> name, filename |-> filename,
     args |-> locals_to_args(locals, argc, kwargc, coflags),
     returns |-> returns]

\* mutant: exc is ignored
SkipsOnExc_never(exc) == FALSE

\* if exc != 0 { return _PyEval_EvalFrameDefault(frame, exc); }
SkipsOnExc(exc) == exc # 0

\* &name[..1usize] != "<" && (file.starts_with(cwd) || file == "<stdin>")
PassesFilter(name, file, dir) ==
    /\ SliceTo(name, 1) # <<"<">>
    /\ (starts_with(file, dir) \/ file = StdinFile)

\* frames.push(info)
PushFrame(frames, info) == Append(frames, info)

\* what frame_printer returns for a traced call: ret
HookResult(ret) == ret


(***************************************************************************)
(* serde_json::to_string(frames): structs become objects whose members     *)
(* are in declaration order, unit enum variants become their name.         *)
(***************************************************************************)
ArgToJson(a) == << <<"name", a.name>>, <<"typ", a.typ>>, <<"kind", a.kind>> >>

FrameInfoToJson(f) ==
    << <<"name", f.name>>, <<"filename", f.filename>>,
       <<"args", [i \in 1..Len(f.args) |-> ArgToJson(f.args[i])]>>,
       <<"returns", f.returns>> >>

\* mutant: the array is written newest first
to_string_reversed(frames) ==
    [i \in 1..Len(frames) |-> FrameInfoToJson(frames[Len(frames) + 1 - i])]

to_string(frames) == [i \in 1..Len(frames) |-> FrameInfoToJson(frames[i])]

\* the two info! lines of the callback
BatchLine(json) == [kind |-> "batch", batch |-> json, n |-> 0]
CountLine(n) == [kind |-> "count", batch |-> <<>>, n |-> n]

\* mutant: the log file is truncated when opened
OpenLog_truncate(log) == <<>>

\* FileLoggerBuilder::new("test.log"): opened for append, earlier lines stay
OpenLog(log) == log

(***************************************************************************)
(* The traced process                                                      *)
(***************************************************************************)
ExcValues == {0, 1}

Frame(co, exc, pc, locals) ==
    [co |-> co, exc |-> exc, pc |-> pc, locals |-> locals]

Top == stack[Len(stack)]
Pop == SubSeq(stack, 1, Len(stack) - 1)

\* the filter as documented: the name does not begin with "<" and the file
\* lies in the directory tree of the startup directory or is "<stdin>"
BeginsWithMarker(name) == Len(name) >= 1 /\ name[1] = "<"
UnderDir(file, dir) == starts_with(file, dir \o <<"/">>)
ClaimQualifies(co) ==
    /\ co.co_name.decodes /\ co.co_filename.decodes
    /\ co.co_name.chars # <<>>
    /\ ~BeginsWithMarker(co.co_name.chars)
    /\ (UnderDir(co.co_filename.chars, StartupDir) \/ co.co_filename.chars = StdinFile)

Init ==
    /\ proc = "running"
    /\ panicked = "none"
    /\ cwd = StartupDir
    /\ CURRENT_DIR = <<>>
    /\ FRAMES = <<>>
    /\ sink = <<>>
    /\ stack = <<>>
    /\ ncalls = 0
    /\ nflush = 0
    /\ evalRet = "none"
    /\ hostRet = "none"
    /\ appended = <<>>
    /\ nTraced = 0
    /\ ArgsIdle /\ ConcIdle

\* a panic inside the extern "C" hook ends the host process: its memory
\* (the store, the frames in progress) is gone, test.log stays
Panic(site) ==
    /\ proc' = "aborted"
    /\ panicked' = site
    /\ stack' = <<>>
    /\ FRAMES' = <<>>
    /\ appended' = <<>>
    /\ nTraced' = 0
    /\ ncalls' = 0
    /\ hostRet' = "none"
    /\ UNCHANGED <<cwd, nflush, sink, argsVars, concVars>>

\* the traced program changes directory; only the first use of CURRENT_DIR
\* reads the working directory
Chdir ==
    /\ proc = "running" /\ CURRENT_DIR = <<>> /\ cwd = StartupDir
    /\ cwd' = OtherDir
    /\ UNCHANGED <<proc, panicked, CURRENT_DIR, stack, ncalls, nflush, evalRet,
                   hostRet, appended, nTraced, storeVars, argsVars, concVars>>

CanEnter ==
    /\ proc = "running"
    /\ ncalls < MaxCalls
    /\ Len(stack) < MaxDepth

\* lazy_static: initialised from env::current_dir() on first dereference
CurrentDirDeref == IF CURRENT_DIR = <<>> THEN <<cwd>> ELSE CURRENT_DIR

Decodes(co) == co.co_name.decodes /\ co.co_filename.decodes

\* frame_printer, exc != 0: straight to the default evaluator
HookSkipExc ==
    \E co \in CodeObjects, exc \in ExcValues :
        /\ CanEnter
        /\ SkipsOnExc(exc)
        /\ stack' = Append(stack, Frame(co, exc, "forward", <<>>))
        /\ ncalls' = ncalls + 1
        /\ evalRet' = "none"
        /\ UNCHANGED <<proc, panicked, cwd, CURRENT_DIR, nflush, hostRet,
                       appended, nTraced, storeVars, argsVars, concVars>>

\* frame_printer: .expect("Failed to decode frame name" / "... file name")
HookPanicDecode ==
    \E co \in CodeObjects, exc \in ExcValues :
        /\ CanEnter
        /\ ~SkipsOnExc(exc)
        /\ ~Decodes(co)
        /\ Panic("decode")
        /\ evalRet' = "none"
        /\ UNCHANGED CURRENT_DIR

\* frame_printer: &name[..1usize] on an empty name or a wide first character
HookPanicSlice ==
    \E co \in CodeObjects, exc \in ExcValues :
        /\ CanEnter
        /\ ~SkipsOnExc(exc)
        /\ Decodes(co)
        /\ CURRENT_DIR' = CurrentDirDeref
        /\ SliceToPanics(co.co_name.chars, 1)
        /\ Panic("name slice")
        /\ evalRet' = "none"

\* frame_printer, else branch: the call is not traced
HookForward ==
    \E co \in CodeObjects, exc \in ExcValues :
        /\ CanEnter
        /\ ~SkipsOnExc(exc)
        /\ Decodes(co)
        /\ CURRENT_DIR' = CurrentDirDeref
        /\ ~SliceToPanics(co.co_name.chars, 1)
        /\ ~PassesFilter(co.co_name.chars, co.co_filename.chars, CurrentDirDeref[1])
        /\ stack' = Append(stack, Frame(co, exc, "forward", <<>>))
        /\ ncalls' = ncalls + 1
        /\ evalRet' = "none"
        /\ UNCHANGED <<proc, panicked, cwd, nflush, hostRet,
                       appended, nTraced, storeVars, argsVars, concVars>>

\* frame_printer, then branch up to the call of the default evaluator:
\* f_locals is fetched (an empty dict if the lookup gives null)
HookSnapshot ==
    \E co \in CodeObjects, exc \in ExcValues, flocals \in {"dict", "null"} :
        /\ CanEnter
        /\ ~SkipsOnExc(exc)
        /\ Decodes(co)
        /\ CURRENT_DIR' = CurrentDirDeref
        /\ ~SliceToPanics(co.co_name.chars, 1)
        /\ PassesFilter(co.co_name.chars, co.co_filename.chars, CurrentDirDeref[1])
        /\ stack' = Append(stack, Frame(co, exc, "traced",
                                        IF flocals = "dict" THEN EntryLocals(co) ELSE <<>>))
        /\ ncalls' = ncalls + 1
        /\ evalRet' = "none"
        /\ UNCHANGED <<proc, panicked, cwd, nflush, hostRet,
                       appended, nTraced, storeVars, argsVars, concVars>>

\* frame_printer: obj.extract::<&PyDict>().unwrap() on an f_locals that is
\* not a dict (a class body whose namespace is another mapping)
HookPanicLocals ==
    \E co \in CodeObjects, exc \in ExcValues :
        /\ CanEnter
        /\ ~SkipsOnExc(exc)
        /\ Decodes(co)
        /\ CURRENT_DIR' = CurrentDirDeref
        /\ ~SliceToPanics(co.co_name.chars, 1)
        /\ PassesFilter(co.co_name.chars, co.co_filename.chars, CurrentDirDeref[1])
        /\ Panic("f_locals")
        /\ evalRet' = "none"


(***************************************************************************)
(* _PyEval_EvalFrameDefault(frame, exc) runs the body.  `locals` is a      *)
(* borrowed reference to the frame's f_locals dict, so what the body does  *)
(* to that dict is what locals_to_args iterates afterwards.                *)
(***************************************************************************)
\* the dicts the body can leave behind: untouched, first local rebound to
\* a list, first local deleted, a new local bound
DictAfterBody(l) ==
    {l, Append(l, [name |-> <<"x", 0>>, typ |-> "list"])}
    \cup (IF l = <<>> THEN {} ELSE {[l EXCEPT ![1].typ = "list"], Tail(l)})

Bump(n, cond) == IF cond THEN n + 1 ELSE n

\* history: the call has exc = 0, a name not starting with "<" and a file
\* name that starts with the captured directory or is "<stdin>"
TracedByCode(fr) ==
    /\ fr.exc = 0
    /\ Decodes(fr.co)
    /\ fr.co.co_name.chars # <<>>
    /\ fr.co.co_name.chars[1] # "<"
    /\ \/ fr.co.co_filename.chars = StdinFile
       \/ /\ Len(fr.co.co_filename.chars) >= Len(CURRENT_DIR[1])
          /\ \A i \in 1..Len(CURRENT_DIR[1]) : fr.co.co_filename.chars[i] = CURRENT_DIR[1][i]

\* frame_printer for an untraced call: the evaluator's result is returned
ReturnForward ==
    \E ret \in RetValues :
        /\ proc = "running" /\ stack # <<>>
        /\ Top.pc = "forward"
        /\ evalRet' = ret
        /\ hostRet' = ret
        /\ stack' = Pop
        /\ nTraced' = Bump(nTraced, TracedByCode(Top))
        /\ UNCHANGED <<proc, panicked, cwd, CURRENT_DIR, ncalls, nflush,
                       appended, storeVars, argsVars, concVars>>

ArgsPanic(locals) ==
    locals_to_args_panics(locals, Top.co.co_argcount, Top.co.co_kwonlyargcount,
                          Top.co.co_flags)

Info(ret, locals) ==
    FrameInfo(Top.co.co_name.chars, Top.co.co_filename.chars, get_type(ret), locals,
              Top.co.co_argcount, Top.co.co_kwonlyargcount, Top.co.co_flags)

\* frame_printer after the evaluator returned: get_type, FrameInfo::new,
\* frames.push(info), ret
ReturnTraced ==
    /\ proc = "running" /\ stack # <<>>
    /\ Top.pc = "traced"
    /\ \E ret \in RetValues, locals \in DictAfterBody(Top.locals) :
        /\ ~ArgsPanic(locals)
        /\ evalRet' = ret
        /\ FRAMES' = PushFrame(FRAMES, Info(ret, locals))
        /\ appended' = Append(appended, Info(ret, locals))
        /\ hostRet' = HookResult(ret)
        /\ stack' = Pop
        /\ nTraced' = Bump(nTraced, TracedByCode(Top))
        /\ UNCHANGED <<proc, panicked, cwd, CURRENT_DIR, ncalls, nflush,
                       sink, argsVars, concVars>>

\* frame_printer after the evaluator returned: a slice or an index of
\* locals_to_args is out of range
ReturnPanicArgs ==
    /\ proc = "running" /\ stack # <<>>
    /\ Top.pc = "traced"
    /\ \E ret \in RetValues, locals \in DictAfterBody(Top.locals) :
        /\ ArgsPanic(locals)
        /\ evalRet' = ret
        /\ Panic("locals_to_args")
        /\ UNCHANGED CURRENT_DIR

\* DummyCallback.__call__, run by atexit once the program's frames are done
DummyCallback ==
    /\ proc = "running" /\ stack = <<>>
    /\ nflush < MaxFlush
    /\ sink' = OpenLog(sink) \o <<BatchLine(to_string(FRAMES)), CountLine(Len(FRAMES))>>
    /\ nflush' = nflush + 1
    /\ UNCHANGED <<proc, panicked, cwd, CURRENT_DIR, stack, ncalls, evalRet,
                   hostRet, appended, nTraced, FRAMES, argsVars, concVars>>

Next ==
    \/ Chdir
    \/ HookSkipExc
    \/ HookPanicDecode
    \/ HookPanicSlice
    \/ HookForward
    \/ HookSnapshot
    \/ HookPanicLocals
    \/ ReturnForward
    \/ ReturnTraced
    \/ ReturnPanicArgs
    \/ DummyCallback

Spec == Init /\ [][Next]_vars


(***************************************************************************)
(* Threads of the host.  FRAMES is a static mut Option<Mutex<Vec<..>>>;    *)
(* both users reach the Vec with FRAMES.as_mut() and Mutex::get_mut(),     *)
(* which hands out the Vec without locking.  The host runs frame_printer   *)
(* and the atexit callback with the GIL held (Python::assume_gil_acquired).*)
(***************************************************************************)
Threads == 1..NThreads

CoF == Code(PyStr(<<"f">>), PyStr(InFile), 1, 0, 3)
CoH == Code(PyStr(<<"h">>), PyStr(SiblingFile), 0, 0, 3)
ThreadCode(t) == IF t % 2 = 1 THEN CoF ELSE CoH

ThreadInfo(t) ==
    FrameInfo(ThreadCode(t).co_name.chars, ThreadCode(t).co_filename.chars,
              get_type("obj_int"), EntryLocals(ThreadCode(t)),
              ThreadCode(t).co_argcount, ThreadCode(t).co_kwonlyargcount,
              ThreadCode(t).co_flags)

\* the thread holds a reference into the Vec
Accessing(t) == tpc[t] \in {"push", "flush"}

\* Mutex::get_mut(): the caller gets &mut Vec, the lock is not taken
get_mut(owner, t) == owner

\* mutant: the hook lets other threads run while it pushes
GilAfterEval_released(t) == 0

\* frame_printer keeps the GIL from the evaluator's return to its own
GilAfterEval(t) == t

InitConc ==
    /\ gil = 0
    /\ mutexOwner = 0
    /\ tpc = [t \in Threads |-> "idle"]
    /\ proc = "running"
    /\ panicked = "none"
    /\ cwd = StartupDir
    /\ CURRENT_DIR = <<StartupDir>>
    /\ FRAMES = <<>>
    /\ sink = <<>>
    /\ stack = <<>>
    /\ ncalls = 0
    /\ nflush = 0
    /\ evalRet = "none"
    /\ hostRet = "none"
    /\ appended = <<>>
    /\ nTraced = 0
    /\ ArgsIdle

\* the host hands the GIL to a waiting thread
TAcquire(t) ==
    /\ gil = 0
    /\ tpc[t] \in {"idle", "eval_nogil"}
    /\ gil' = t
    /\ tpc' = [tpc EXCEPT ![t] = IF tpc[t] = "idle" THEN "python" ELSE "eval"]
    /\ UNCHANGED <<mutexOwner, procVars, storeVars, argsVars>>

\* the host takes the GIL away between two bytecodes
TYield(t) ==
    /\ gil = t
    /\ tpc[t] \in {"python", "eval"}
    /\ gil' = 0
    /\ tpc' = [tpc EXCEPT ![t] = IF tpc[t] = "python" THEN "idle" ELSE "eval_nogil"]
    /\ UNCHANGED <<mutexOwner, procVars, storeVars, argsVars>>

\* frame_printer up to the call of the default evaluator, traced call
TCall(t) ==
    /\ gil = t
    /\ tpc[t] = "python"
    /\ ncalls < MaxCalls
    /\ ncalls' = ncalls + 1
    /\ tpc' = [tpc EXCEPT ![t] = "eval"]
    /\ UNCHANGED <<gil, mutexOwner, proc, panicked, cwd, CURRENT_DIR, stack, nflush,
                   evalRet, hostRet, appended, nTraced, storeVars, argsVars>>

\* frame_printer: FRAMES.as_mut() ... frame.get_mut().unwrap()
TPushBegin(t) ==
    /\ gil = t
    /\ tpc[t] = "eval"
    /\ gil' = GilAfterEval(t)
    /\ mutexOwner' = get_mut(mutexOwner, t)
    /\ tpc' = [tpc EXCEPT ![t] = "push"]
    /\ UNCHANGED <<procVars, storeVars, argsVars>>

\* frame_printer: frames.push(info); ret
TPushEnd(t) ==
    /\ tpc[t] = "push"
    /\ FRAMES' = PushFrame(FRAMES, ThreadInfo(t))
    /\ tpc' = [tpc EXCEPT ![t] = IF gil = t THEN "python" ELSE "idle"]
    /\ UNCHANGED <<gil, mutexOwner, procVars, sink, argsVars>>

\* DummyCallback.__call__: FRAMES.as_mut() ... frame.get_mut().unwrap()
TFlushBegin(t) ==
    /\ gil = t
    /\ tpc[t] = "python"
    /\ nflush < MaxFlush
    /\ nflush' = nflush + 1
    /\ mutexOwner' = get_mut(mutexOwner, t)
    /\ tpc' = [tpc EXCEPT ![t] = "flush"]
    /\ UNCHANGED <<gil, proc, panicked, cwd, CURRENT_DIR, stack, ncalls,
                   evalRet, hostRet, appended, nTraced, storeVars, argsVars>>

\* DummyCallback.__call__: the two info! lines, Ok(())
TFlushEnd(t) ==
    /\ tpc[t] = "flush"
    /\ sink' = OpenLog(sink) \o <<BatchLine(to_string(FRAMES)), CountLine(Len(FRAMES))>>
    /\ tpc' = [tpc EXCEPT ![t] = "python"]
    /\ UNCHANGED <<gil, mutexOwner, procVars, FRAMES, argsVars>>

NextConc ==
    \E t \in Threads :
        \/ TAcquire(t)
        \/ TYield(t)
        \/ TCall(t)
        \/ TPushBegin(t)
        \/ TPushEnd(t)
        \/ TFlushBegin(t)
        \/ TFlushEnd(t)

SpecConc == InitConc /\ [][NextConc]_vars

Overlap == \E t, u \in Threads : t # u /\ Accessing(t) /\ Accessing(u)

\* C10 (as stated): every access to the store is made while holding the
\* store's lock, and so no two accesses overlap.
C10_AccessUnderLock ==
    /\ \A t \in Threads : Accessing(t) => mutexOwner = t
    /\ ~Overlap

\* C10 (amended): no access takes the store's lock (Mutex::get_mut does not
\* lock); every access is made while the caller holds the host's GIL, and
\* so no two accesses overlap.
C10_AccessUnderGil ==
    /\ mutexOwner = 0
    /\ \A t \in Threads : Accessing(t) => gil = t
    /\ ~Overlap

\* one thread is inside its push while another waits inside the evaluator
\* with a push of its own to come
C10_Witness ==
    \E t, u \in Threads :
        /\ t # u
        /\ tpc[t] = "push"
        /\ tpc[u] = "eval_nogil"
        /\ mutexOwner = 0


(***************************************************************************)
(* Properties of the traced process (Spec)                                 *)
(***************************************************************************)
Count(seq, P(_)) == Cardinality({i \in 1..Len(seq) : P(seq[i])})
IsStarArgs(a) == a.kind = "StarArgs"
IsStarKwargs(a) == a.kind = "StarKwargs"

\* rank of a kind in the order the claim gives: variadic entries last
RankVariadicLast(kind) ==
    CASE kind = "Positional" -> 0
      [] kind = "KeywordOnly" -> 1
      [] OTHER -> 2

\* rank of a kind in signature order
RankSignature(kind) ==
    CASE kind = "Positional" -> 0
      [] kind = "StarArgs" -> 1
      [] kind = "KeywordOnly" -> 2
      [] OTHER -> 3

Ordered(args, Rank(_)) ==
    \A i, j \in 1..Len(args) : i < j => Rank(args[i].kind) <= Rank(args[j].kind)

AtMostOneVariadicEach(args) ==
    Count(args, IsStarArgs) <= 1 /\ Count(args, IsStarKwargs) <= 1

\* C2 (as stated): in every stored record Positional entries precede
\* KeywordOnly entries, which precede every variadic entry, with at most one
\* entry of each variadic kind.
C2_VariadicLast ==
    \A r \in 1..Len(FRAMES) :
        Ordered(FRAMES[r].args, RankVariadicLast) /\ AtMostOneVariadicEach(FRAMES[r].args)

\* C2 (amended): in every stored record the order is Positional entries,
\* then the StarArgs entry, then KeywordOnly entries, then the StarKwargs
\* entry, with at most one entry of each variadic kind.
C2_SignatureOrder ==
    \A r \in 1..Len(FRAMES) :
        Ordered(FRAMES[r].args, RankSignature) /\ AtMostOneVariadicEach(FRAMES[r].args)

\* a stored record with keyword-only arguments next to *args and **kwargs
C2_Witness ==
    \E r \in 1..Len(FRAMES) :
        /\ Len(FRAMES[r].args) = 4
        /\ \E i \in 1..4 : FRAMES[r].args[i].kind = "KeywordOnly"
        /\ Count(FRAMES[r].args, IsStarArgs) = 1
        /\ Count(FRAMES[r].args, IsStarKwargs) = 1

IsBatch(line) == line.kind = "batch"
Batches(log) == SelectSeq(log, IsBatch)

\* C3: nothing reaches the sink before the callback runs, and its first run
\* leaves exactly one batch there, holding exactly the records appended so
\* far, in the order they were appended.
C3_OneBatchInAppendOrder ==
    /\ [](nflush = 0 => sink = <<>>)
    /\ [][(nflush = 0 /\ nflush' = 1) =>
            /\ Len(Batches(sink')) = 1
            /\ Len(Batches(sink')[1].batch) = Len(appended)
            /\ Len(appended) = nTraced
            /\ \A i \in 1..Len(appended) :
                   Batches(sink')[1].batch[i] = FrameInfoToJson(appended[i])]_vars

\* one run of the callback after two different records were appended
C3_Witness ==
    /\ nflush = 1
    /\ Len(Batches(sink)) = 1
    /\ Len(Batches(sink)[1].batch) = 2
    /\ Batches(sink)[1].batch[1] # Batches(sink)[1].batch[2]

\* the records of all the batches in the log
RECURSIVE TotalRecords(_)
TotalRecords(bs) ==
    IF bs = <<>> THEN 0 ELSE Len(bs[1].batch) + TotalRecords(Tail(bs))

\* the store is append-only, so two runs of the callback wrote batches of
\* the same length exactly when nothing was appended between them
RepeatedFlush ==
    /\ nflush >= 2
    /\ Len(Batches(sink)) >= 2
    /\ Len(Batches(sink)[1].batch) = Len(Batches(sink)[2].batch)

\* C4 (as stated): after a second run of the callback with no append in
\* between, the sink holds each record of the first run exactly once.
C4_SecondFlushAddsNothing ==
    RepeatedFlush =>
        TotalRecords(SubSeq(Batches(sink), 1, 2)) = Len(Batches(sink)[1].batch)

\* C4 (amended): every run of the callback adds one batch to the log and
\* keeps the earlier ones; a second run with no append in between writes
\* the same batch again, so each record is in the sink exactly twice, and
\* the store keeps its records.
C4_SecondFlushRepeatsBatch ==
    /\ Len(Batches(sink)) = nflush
    /\ RepeatedFlush =>
          /\ Batches(sink)[2].batch = Batches(sink)[1].batch
          /\ TotalRecords(SubSeq(Batches(sink), 1, 2)) = 2 * Len(Batches(sink)[1].batch)
          /\ proc = "running" => Len(FRAMES) >= Len(Batches(sink)[1].batch)

\* two runs of the callback over the same non-empty store
C4_Witness ==
    /\ RepeatedFlush
    /\ Len(Batches(sink)[1].batch) >= 1
    /\ Len(FRAMES) = Len(Batches(sink)[1].batch)

\* C5: the store holds no record of a call whose name begins with "<" nor of
\* a call whose file is neither "<stdin>" nor inside the directory tree of
\* the startup working directory, and no locals snapshot is taken for such
\* a call.
C5_ExcludedNeverTraced ==
    /\ \A r \in 1..Len(FRAMES) :
          /\ ~BeginsWithMarker(FRAMES[r].name)
          /\ (UnderDir(FRAMES[r].filename, StartupDir) \/ FRAMES[r].filename = StdinFile)
    /\ \A d \in 1..Len(stack) :
          stack[d].pc = "traced" => ClaimQualifies(stack[d].co)

\* the hook returns to the host from its innermost activation
HookReturns == stack # <<>> /\ stack' = Pop /\ proc' = "running"

C7_TracingFailureSilent ==
    proc = "aborted" => panicked \notin {"locals_to_args", "decode"}

\* the default evaluator has just returned NULL for a traced call
NullReturn == stack # <<>> /\ Top.pc = "traced" /\ evalRet' = "NULL"

\* C8: when the default evaluator returns NULL for a traced call the hook
\* appends one record whose returns is "<unknown>", raises no error and
\* hands NULL back.
C8_NullReturnRecorded ==
    [][NullReturn =>
          /\ proc' = "running"
          /\ Len(FRAMES') = Len(FRAMES) + 1
          /\ FRAMES'[Len(FRAMES')].returns = "<unknown>"
          /\ hostRet' = "NULL"]_vars

\* C9: the typ of every argument of a record is the type its parameter was
\* bound to at call entry.
C9_EntryTimeTypes ==
    [][(stack # <<>> /\ Len(FRAMES') = Len(FRAMES) + 1) =>
          \A i \in 1..Len(FRAMES'[Len(FRAMES')].args) :
              \E j \in 1..Len(Top.locals) :
                  /\ Top.locals[j].name = FRAMES'[Len(FRAMES')].args[i].name
                  /\ Top.locals[j].typ = FRAMES'[Len(FRAMES')].args[i].typ]_vars

====
